---- MODULE Spec2Model ----
(***************************************************************************)
(* Model of FinancialSimulator.simulate_scenario (src/app.py, 108-260):    *)
(* the year-stepped projection of income, taxes, expenses, debt, emergency *)
(* fund, investments and net worth, and the financial-independence search  *)
(* that follows the loop.                                                  *)
(*                                                                         *)
(* Numbers.  The program computes in Python numbers (int and float).  The  *)
(* model computes in exact rationals <<n, d>> (d > 0, lowest terms).  The  *)
(* grid inputs are integers and dyadic rates (1/2, 1/4), for which the     *)
(* program's double arithmetic is exact as well.                           *)
(***************************************************************************)
EXTENDS Integers, Sequences, FiniteSets, TLC

(***************************************************************************)
(* Exact rational arithmetic                                               *)
(***************************************************************************)
Abs(n) == IF n < 0 THEN -n ELSE n

\* Euclid's algorithm, two steps at a time
RECURSIVE GCD(_, _)
GCD(a, b) ==
  IF b = 0 THEN a
  ELSE IF a % b = 0 THEN b
  ELSE GCD(a % b, b % (a % b))

\* the rational n/d in lowest terms, d > 0
Q(n, d) ==
  LET s == IF d < 0 THEN -1 ELSE 1
      g == GCD(Abs(n), Abs(d))
  IN  <<(s * n) \div g, (s * d) \div g>>

I(n) == <<n, 1>>
Zero == I(0)
One == I(1)
Num(x) == x[1]
Den(x) == x[2]

RAdd(x, y) ==
  LET g == GCD(Den(x), Den(y))
  IN  Q(Num(x) * (Den(y) \div g) + Num(y) * (Den(x) \div g), Den(x) * (Den(y) \div g))

RNeg(x) == <<-Num(x), Den(x)>>
RSub(x, y) == RAdd(x, RNeg(y))

RMul(x, y) ==
  LET g1 == GCD(Abs(Num(x)), Den(y))
      g2 == GCD(Abs(Num(y)), Den(x))
  IN  Q((Num(x) \div g1) * (Num(y) \div g2), (Den(x) \div g2) * (Den(y) \div g1))

\* x / y for y # 0
RDiv(x, y) == RMul(x, Q(Den(y), Num(y)))

\* comparisons on a common denominator
RLt(x, y) ==
  LET g == GCD(Den(x), Den(y))
  IN  Num(x) * (Den(y) \div g) < Num(y) * (Den(x) \div g)
RLe(x, y) == ~RLt(y, x)
RGt(x, y) == RLt(y, x)
RGe(x, y) == ~RLt(x, y)

\* Python's min(a, b) and max(a, b)
RMin(x, y) == IF RLt(y, x) THEN y ELSE x
RMax(x, y) == IF RGt(y, x) THEN y ELSE x

\* x ** k for an integer k >= 0
RECURSIVE IPow(_, _)
IPow(n, k) ==
  IF k = 0 THEN 1
  ELSE IF k % 2 = 0 THEN IPow(n * n, k \div 2)
  ELSE n * IPow(n * n, k \div 2)
RPow(x, k) == Q(IPow(Num(x), k), IPow(Den(x), k))

RECURSIVE RSum(_)
RSum(s) == IF s = <<>> THEN Zero ELSE RAdd(Head(s), RSum(Tail(s)))

(***************************************************************************)
(* Program constants                                                       *)
(***************************************************************************)
MonthsPerYear == 12
EmergencyFundMonths == 6
DebtRepaymentYears == 10
\* the share of the available funds offered to the emergency fund
EmergencyFundShareThreeTenths == Q(3, 10)
EmergencyFundShare == Q(1, 2)
\* the safe withdrawal rate of the 4% rule
SafeWithdrawalRateFivePercent == Q(5, 100)
SafeWithdrawalRate == Q(4, 100)

(***************************************************************************)
(* The arguments of one call and the locals of simulate_scenario           *)
(***************************************************************************)
VARIABLES
  scenario, years, inflation_rate, tax_rate,
  pc, year, age, current_salary, current_growth_rate, net_worth,
  liquid_savings, investment_portfolio, total_earned, total_saved,
  total_spent, total_taxes, debt_balance, yearly_data,
  monthly_expenses_base, result, raised,
  \* the simulator's stored scenarios, the scenario file, the session's
  \* editing state and the exception of the last store operation
  scenarios, scenario_file, editing_scenario_id, store_raised,
  \* what the result pages show
  milestone_summary, comparison,
  \* the simulate_scenario calls completed on this simulator so far
  history

args == <<scenario, years, inflation_rate, tax_rate>>
locals == <<year, age, current_salary, current_growth_rate, net_worth,
            liquid_savings, investment_portfolio, total_earned, total_saved,
            total_spent, total_taxes, debt_balance, yearly_data,
            monthly_expenses_base>>
store == <<scenarios, scenario_file, editing_scenario_id, store_raised>>
display == <<milestone_summary, comparison>>
vars == <<args, locals, pc, result, raised, store, display, history>>

(***************************************************************************)
(* The steps of one loop iteration, in the order of the code               *)
(***************************************************************************)

\* the fields every year record starts with
YearEntryHeaderShifted(start_age, y) ==
  [year_idx |-> y, year_display |-> y, age |-> start_age + y + 1]
YearEntryHeader(start_age, y) ==
  [year_idx |-> y, year_display |-> y + 1, age |-> start_age + y]

CareerEvent(change) ==
  [kind |-> "career", label |-> "", v1 |-> change.new_salary, v2 |-> change.new_growth_rate]

\* the career_changes loop: every entry of this year overwrites the current
\* salary and growth rate, in list order, and adds an event
RECURSIVE ApplyCareerChangesFirstWins(_, _, _, _, _)
ApplyCareerChangesFirstWins(changes, y, salary, growth, events) ==
  IF changes = <<>>
  THEN [salary |-> salary, growth |-> growth, events |-> events]
  ELSE LET change == Head(changes)
       IN  IF change.year = y
           THEN [salary |-> change.new_salary, growth |-> change.new_growth_rate,
                 events |-> Append(events, CareerEvent(change))]
           ELSE ApplyCareerChangesFirstWins(Tail(changes), y, salary, growth, events)
RECURSIVE ApplyCareerChanges(_, _, _, _, _)
ApplyCareerChanges(changes, y, salary, growth, events) ==
  IF changes = <<>>
  THEN [salary |-> salary, growth |-> growth, events |-> events]
  ELSE LET change == Head(changes)
       IN  IF change.year = y
           THEN ApplyCareerChanges(Tail(changes), y, change.new_salary,
                                   change.new_growth_rate,
                                   Append(events, CareerEvent(change)))
           ELSE ApplyCareerChanges(Tail(changes), y, salary, growth, events)

InflationMultiplier(rate, y) == RPow(RAdd(One, rate), y)

AnnualIncomeNotCompounded(salary, growth, y) ==
  RMul(salary, RAdd(One, RMul(growth, I(y))))
AnnualIncome(salary, growth, y) == RMul(salary, RPow(RAdd(One, growth), y))

MajorEvent(expense, amount) ==
  [kind |-> "major", label |-> expense.name, v1 |-> amount, v2 |-> Zero]

\* the major_expenses loop: the entries of this year, each adjusted for
\* inflation, summed, one event each
RECURSIVE ApplyMajorExpensesLastOnly(_, _, _, _, _)
ApplyMajorExpensesLastOnly(expenses, y, multiplier, total, events) ==
  IF expenses = <<>>
  THEN [total |-> total, events |-> events]
  ELSE LET expense == Head(expenses)
           adjusted == RMul(expense.amount, multiplier)
       IN  IF expense.year = y
           THEN ApplyMajorExpensesLastOnly(Tail(expenses), y, multiplier, adjusted,
                                           Append(events, MajorEvent(expense, adjusted)))
           ELSE ApplyMajorExpensesLastOnly(Tail(expenses), y, multiplier, total, events)
RECURSIVE ApplyMajorExpenses(_, _, _, _, _)
ApplyMajorExpenses(expenses, y, multiplier, total, events) ==
  IF expenses = <<>>
  THEN [total |-> total, events |-> events]
  ELSE LET expense == Head(expenses)
           adjusted == RMul(expense.amount, multiplier)
       IN  IF expense.year = y
           THEN ApplyMajorExpenses(Tail(expenses), y, multiplier,
                                   RAdd(total, adjusted),
                                   Append(events, MajorEvent(expense, adjusted)))
           ELSE ApplyMajorExpenses(Tail(expenses), y, multiplier, total, events)

\* whether this year pays debt at all
DebtDue(student_debt, balance) == RGt(balance, Zero) /\ RGt(student_debt, Zero)

\* this year's payment, when debt is due
DebtPaymentOfBalance(student_debt, balance) == RDiv(balance, I(DebtRepaymentYears))
DebtPayment(student_debt, balance) ==
  RMin(RDiv(student_debt, I(DebtRepaymentYears)), balance)

\* the balance after the payment
DebtAfterPaymentAdded(balance, payment) == RAdd(balance, payment)
DebtAfterPayment(balance, payment) == RMax(Zero, RSub(balance, payment))

DebtEvent(payment, balance) ==
  [kind |-> "debt", label |-> "", v1 |-> payment, v2 |-> balance]

EmergencyFundTarget(monthly_adjusted) == RMul(monthly_adjusted, I(EmergencyFundMonths))

\* the emergency-fund contribution of a year
EmergencyFundContributionUncapped(available, liquid, target) ==
  IF RLt(liquid, target) /\ RGt(available, Zero)
  THEN RMul(available, EmergencyFundShare)
  ELSE Zero
EmergencyFundContributionInDeficit(available, liquid, target) ==
  IF RLt(liquid, target)
  THEN RMin(RMul(available, EmergencyFundShare), RSub(target, liquid))
  ELSE Zero
EmergencyFundContribution(available, liquid, target) ==
  IF RLt(liquid, target) /\ RGt(available, Zero)
  THEN RMin(RMul(available, EmergencyFundShare), RSub(target, liquid))
  ELSE Zero

InvestmentContributionUnclamped(available, savings_rate) == RMul(available, savings_rate)
InvestmentContribution(available, savings_rate) ==
  RMax(Zero, RMul(available, savings_rate))

InvestmentGrowth(portfolio, return_rate) == RMul(portfolio, return_rate)

NetWorthWithoutDebt(liquid, portfolio, debt) == RAdd(liquid, portfolio)
NetWorth(liquid, portfolio, debt) == RSub(RAdd(liquid, portfolio), debt)

(***************************************************************************)
(* One iteration of `for year in range(years)`.  The iteration is a chain  *)
(* of stages in the order of the code; each stage takes the values         *)
(* computed so far (w) and adds its own.  w starts as the locals.          *)
(***************************************************************************)

\* w with the fields of new added or replaced
Extend(w, new) == IF DOMAIN w = {} THEN new ELSE new @@ w

\* the year record is created, the career changes are applied, the expenses
\* are adjusted for inflation and the income of the year is computed
IncomeStage(sc, y, infl, w) ==
  LET header == YearEntryHeader(w.age, y)
      career == ApplyCareerChanges(sc.career_changes, y, w.current_salary,
                                   w.current_growth_rate, <<>>)
      monthly_expenses_adjusted ==
        RMul(w.monthly_expenses_base, InflationMultiplier(infl, y))
  IN  Extend(w,
        [year_idx |-> header.year_idx,
         year_display |-> header.year_display,
         entry_age |-> header.age,
         events |-> career.events,
         current_salary |-> career.salary,
         current_growth_rate |-> career.growth,
         inflation_multiplier |-> InflationMultiplier(infl, y),
         monthly_expenses_adjusted |-> monthly_expenses_adjusted,
         annual_living_expenses |-> RMul(monthly_expenses_adjusted, I(MonthsPerYear)),
         annual_income |-> AnnualIncome(career.salary, career.growth, y)])

\* taxes, the major expenses of the year and the debt payment
DeductionStage(sc, y, tax, w) ==
  LET annual_taxes == RMul(w.annual_income, tax)
      major == ApplyMajorExpenses(sc.major_expenses, y, w.inflation_multiplier,
                                  Zero, w.events)
      debt_payment_this_year ==
        IF DebtDue(sc.student_debt, w.debt_balance)
        THEN DebtPayment(sc.student_debt, w.debt_balance)
        ELSE Zero
  IN  Extend(w,
        [annual_taxes |-> annual_taxes,
         after_tax_income |-> RSub(w.annual_income, annual_taxes),
         major_expense_this_year |-> major.total,
         events |-> major.events,
         debt_due |-> DebtDue(sc.student_debt, w.debt_balance),
         debt_payment_this_year |-> debt_payment_this_year])

\* the debt balance after the payment, and what is left for savings after
\* all deductions
AvailableStageDebtEventFirst(w) ==
  LET new_debt_balance ==
        IF w.debt_due THEN DebtAfterPayment(w.debt_balance, w.debt_payment_this_year)
        ELSE w.debt_balance
  IN  Extend(w,
        [debt_balance |-> new_debt_balance,
         events |->
           IF w.debt_due
           THEN <<DebtEvent(w.debt_payment_this_year, new_debt_balance)>> \o w.events
           ELSE w.events,
         available_for_savings |->
           RSub(RSub(RSub(w.after_tax_income, w.annual_living_expenses),
                     w.major_expense_this_year),
                w.debt_payment_this_year),
         emergency_fund_target |-> EmergencyFundTarget(w.monthly_expenses_adjusted)])
AvailableStage(w) ==
  LET new_debt_balance ==
        IF w.debt_due THEN DebtAfterPayment(w.debt_balance, w.debt_payment_this_year)
        ELSE w.debt_balance
  IN  Extend(w,
        [debt_balance |-> new_debt_balance,
         events |->
           IF w.debt_due
           THEN Append(w.events, DebtEvent(w.debt_payment_this_year, new_debt_balance))
           ELSE w.events,
         available_for_savings |->
           RSub(RSub(RSub(w.after_tax_income, w.annual_living_expenses),
                     w.major_expense_this_year),
                w.debt_payment_this_year),
         emergency_fund_target |-> EmergencyFundTarget(w.monthly_expenses_adjusted)])

\* the emergency fund comes first
EmergencyFundStageNotDeducted(w) ==
  LET emergency_fund_contribution ==
        EmergencyFundContribution(w.available_for_savings, w.liquid_savings,
                                  w.emergency_fund_target)
  IN  Extend(w,
        [emergency_fund_contribution |-> emergency_fund_contribution,
         liquid_savings |-> RAdd(w.liquid_savings, emergency_fund_contribution)])
EmergencyFundStage(w) ==
  LET emergency_fund_contribution ==
        EmergencyFundContribution(w.available_for_savings, w.liquid_savings,
                                  w.emergency_fund_target)
  IN  Extend(w,
        [emergency_fund_contribution |-> emergency_fund_contribution,
         liquid_savings |-> RAdd(w.liquid_savings, emergency_fund_contribution),
         available_for_savings |->
           RSub(w.available_for_savings, emergency_fund_contribution)])

\* then the investments
InvestmentStageGrowthOnContribution(sc, w) ==
  LET investment_contribution ==
        InvestmentContribution(w.available_for_savings, sc.savings_rate)
      investment_growth_this_year ==
        InvestmentGrowth(RAdd(w.investment_portfolio, investment_contribution),
                         sc.investment_return_rate)
  IN  Extend(w,
        [investment_contribution |-> investment_contribution,
         investment_growth_this_year |-> investment_growth_this_year,
         investment_portfolio |->
           RAdd(w.investment_portfolio,
                RAdd(investment_contribution, investment_growth_this_year)),
         annual_total_savings |->
           RAdd(w.emergency_fund_contribution, investment_contribution)])
InvestmentStage(sc, w) ==
  LET investment_contribution ==
        InvestmentContribution(w.available_for_savings, sc.savings_rate)
      investment_growth_this_year ==
        InvestmentGrowth(w.investment_portfolio, sc.investment_return_rate)
  IN  Extend(w,
        [investment_contribution |-> investment_contribution,
         investment_growth_this_year |-> investment_growth_this_year,
         investment_portfolio |->
           RAdd(w.investment_portfolio,
                RAdd(investment_contribution, investment_growth_this_year)),
         annual_total_savings |->
           RAdd(w.emergency_fund_contribution, investment_contribution)])

\* net worth and the running totals
NetWorthStageSavedInvestmentsOnly(w) ==
  Extend(w,
    [net_worth |-> NetWorth(w.liquid_savings, w.investment_portfolio, w.debt_balance),
     total_earned |-> RAdd(w.total_earned, w.annual_income),
     total_taxes |-> RAdd(w.total_taxes, w.annual_taxes),
     total_spent |-> RAdd(RAdd(w.total_spent, w.annual_living_expenses),
                          w.major_expense_this_year),
     total_saved |-> RAdd(w.total_saved, w.investment_contribution)])
NetWorthStage(w) ==
  Extend(w,
    [net_worth |-> NetWorth(w.liquid_savings, w.investment_portfolio, w.debt_balance),
     total_earned |-> RAdd(w.total_earned, w.annual_income),
     total_taxes |-> RAdd(w.total_taxes, w.annual_taxes),
     total_spent |-> RAdd(RAdd(w.total_spent, w.annual_living_expenses),
                          w.major_expense_this_year),
     total_saved |-> RAdd(w.total_saved, w.annual_total_savings)])

\* the year record appended to yearly_data
YearEntry(w) ==
  [year_idx |-> w.year_idx,
   year_display |-> w.year_display,
   age |-> w.entry_age,
   events |-> w.events,
   gross_salary |-> w.annual_income,
   taxes |-> w.annual_taxes,
   after_tax_income |-> w.after_tax_income,
   living_expenses_inflation_adj |-> w.annual_living_expenses,
   inflation_multiplier |-> w.inflation_multiplier,
   monthly_expenses_base |-> w.monthly_expenses_base,
   monthly_expenses_display |-> w.monthly_expenses_adjusted,
   major_expenses_this_year |-> w.major_expense_this_year,
   debt_payment_this_year |-> w.debt_payment_this_year,
   emergency_fund_target |-> w.emergency_fund_target,
   emergency_fund_contrib |-> w.emergency_fund_contribution,
   investment_contrib |-> w.investment_contribution,
   investment_growth_this_year |-> w.investment_growth_this_year,
   annual_total_savings |-> w.annual_total_savings,
   liquid_savings_total |-> w.liquid_savings,
   investment_portfolio_total |-> w.investment_portfolio,
   debt_balance_current |-> w.debt_balance,
   net_worth |-> w.net_worth]

\* the values at the end of the iteration of year y, from the locals st
\* (the statements run in program order, each on the values the previous
\* ones left)
YearStep(sc, y, infl, tax, st) ==
  LET after_income     == {IncomeStage(sc, y, infl, st)}
      after_deductions == {DeductionStage(sc, y, tax, w) : w \in after_income}
      after_available  == {AvailableStage(w) : w \in after_deductions}
      after_emergency  == {EmergencyFundStage(w) : w \in after_available}
      after_investment == {InvestmentStage(sc, w) : w \in after_emergency}
      after_net_worth  == {NetWorthStage(w) : w \in after_investment}
  IN  CHOOSE w \in after_net_worth : TRUE

(***************************************************************************)
(* After the loop: the financial-independence search and the summary       *)
(***************************************************************************)

\* Python's list[i]: a negative i counts from the end
IndexInRange(len, i) == -len <= i /\ i < len
ListIndex(len, i) == IF i < 0 THEN len + i + 1 ELSE i + 1

\* the index whose record gives current_year_expenses
LastYearIndexPastEnd(n) == n
LastYearIndex(n) == n - 1

FITarget(current_year_expenses) ==
  IF RGt(current_year_expenses, Zero)
  THEN RDiv(current_year_expenses, SafeWithdrawalRate)
  ELSE Zero

\* the balance the search compares with the target
FIBalanceNetWorth(entry) == entry.net_worth
FIBalance(entry) == entry.investment_portfolio_total

\* the position of the first record that reaches the target, 0 when none does
RECURSIVE FISearchAboveTarget(_, _, _)
FISearchAboveTarget(data, i, fi_target) ==
  IF i > Len(data) THEN 0
  ELSE IF RGt(FIBalance(data[i]), fi_target) THEN i
  ELSE FISearchAboveTarget(data, i + 1, fi_target)
RECURSIVE FISearch(_, _, _)
FISearch(data, i, fi_target) ==
  IF i > Len(data) THEN 0
  ELSE IF RGe(FIBalance(data[i]), fi_target) THEN i
  ELSE FISearch(data, i + 1, fi_target)

\* None is the empty sequence, a value v is <<v>>
None == <<>>
Some(v) == <<v>>

SummaryOfAgeOfLastRecord(st, n, fi_target, fi_age, fi_year_achieved) ==
  [total_earned |-> st.total_earned,
   total_taxes |-> st.total_taxes,
   total_saved |-> st.total_saved,
   total_spent |-> st.total_spent,
   final_net_worth |-> st.net_worth,
   final_age |-> st.age + n - 1,
   liquid_savings_final |-> st.liquid_savings,
   investment_portfolio_final |-> st.investment_portfolio,
   remaining_debt_final |-> st.debt_balance,
   fi_target |-> fi_target,
   fi_achieved |-> fi_age # None,
   fi_age |-> fi_age,
   fi_year_achieved |-> fi_year_achieved]
SummaryOf(st, n, fi_target, fi_age, fi_year_achieved) ==
  [total_earned |-> st.total_earned,
   total_taxes |-> st.total_taxes,
   total_saved |-> st.total_saved,
   total_spent |-> st.total_spent,
   final_net_worth |-> st.net_worth,
   final_age |-> st.age + n,
   liquid_savings_final |-> st.liquid_savings,
   investment_portfolio_final |-> st.investment_portfolio,
   remaining_debt_final |-> st.debt_balance,
   fi_target |-> fi_target,
   fi_achieved |-> fi_age # None,
   fi_age |-> fi_age,
   fi_year_achieved |-> fi_year_achieved]

\* the record the search stopped at, if any, gives the age and the year
FIMetrics(data, st, n, fi_target, hit) ==
  SummaryOf(st, n, fi_target,
            IF hit = 0 THEN None ELSE Some(data[hit].age),
            IF hit = 0 THEN None ELSE Some(data[hit].year_display))

FIWithTarget(data, st, n, fi_target) ==
  FIMetrics(data, st, n, fi_target, FISearch(data, 1, fi_target))

Summary(data, n, st) ==
  FIWithTarget(data, st, n,
    FITarget(data[ListIndex(Len(data), LastYearIndex(n))].living_expenses_inflation_adj))

(***************************************************************************)
(* The calls explored                                                      *)
(***************************************************************************)
MaxYears == 3
MaxLongYears == 12

Half == Q(1, 2)
Quarter == Q(1, 4)

CarAndTrip ==
  << [name |-> "Car", amount |-> I(8000), year |-> 1],
     [name |-> "Trip", amount |-> I(2000), year |-> 1] >>
PromotionTwice ==
  << [year |-> 1, new_salary |-> I(80000), new_growth_rate |-> Zero],
     [year |-> 1, new_salary |-> I(40000), new_growth_rate |-> Half] >>

\* career changes out of chronological order, the last one past the horizon
OutOfOrder ==
  << [year |-> 2, new_salary |-> I(90000), new_growth_rate |-> Zero],
     [year |-> 0, new_salary |-> I(30000), new_growth_rate |-> Half],
     [year |-> 5, new_salary |-> I(10000), new_growth_rate |-> Zero] >>
\* one past the horizon first, then two for the first year
LateThenTwoAtStart ==
  << [year |-> 5, new_salary |-> I(10000), new_growth_rate |-> Zero],
     [year |-> 0, new_salary |-> I(80000), new_growth_rate |-> Zero],
     [year |-> 0, new_salary |-> I(40000), new_growth_rate |-> Half] >>

Scenario(sal, gr, me, sr, rr, sd, mx, cc) ==
  [starting_age |-> 25, starting_salary |-> sal, salary_growth_rate |-> gr,
   monthly_expenses |-> me, savings_rate |-> sr, investment_return_rate |-> rr,
   student_debt |-> sd, major_expenses |-> mx, career_changes |-> cc]

\* short horizons, every combination of the field values
GridCalls ==
  { [scenario |-> Scenario(sal, gr, me, sr, rr, sd, mx, cc),
     years |-> n, inflation_rate |-> infl, tax_rate |-> tax] :
      sal \in {Zero, I(60000)}, gr \in {Zero, Half},
      me \in {I(-100), Zero, I(100), I(2000)},
      sr \in {Q(-1, 2), Half, One, Q(3, 2)},
      rr \in {Zero, Half}, sd \in {Zero, I(50000)},
      mx \in {<<>>, CarAndTrip}, cc \in {<<>>, PromotionTwice},
      n \in -1 .. MaxYears, infl \in {Zero, Half}, tax \in {Quarter} }

\* long horizons, without compounding
LongCalls ==
  { [scenario |-> Scenario(sal, Zero, me, sr, Zero, sd, <<>>, <<>>),
     years |-> MaxLongYears, inflation_rate |-> Zero, tax_rate |-> tax] :
      sal \in {Zero, I(60000)}, me \in {Zero, I(100), I(2000)},
      sr \in {Half, One}, sd \in {I(25), I(50000)}, tax \in {Zero, Quarter} }

\* scenario example 1 of the specification
Example1Call ==
  [scenario |-> Scenario(I(60000), Q(3, 100), I(2000), Q(1, 5), Q(7, 100), Zero,
                         <<>>, <<>>),
   years |-> 1, inflation_rate |-> Q(3, 100), tax_rate |-> Quarter]

\* careers with several changes
CareerCalls ==
  { [scenario |-> Scenario(I(60000), gr, I(2000), Half, Zero, Zero, <<>>, cc),
     years |-> n, inflation_rate |-> Zero, tax_rate |-> Quarter] :
      gr \in {Zero, Half}, cc \in {OutOfOrder, LateThenTwoAtStart},
      n \in 1 .. MaxYears }

\* major expenses of several years in one list, one past the horizon
MixedExpenses ==
  << [name |-> "Deposit", amount |-> I(1000), year |-> 0],
     [name |-> "Car", amount |-> I(8000), year |-> 1],
     [name |-> "Boat", amount |-> I(500), year |-> 5],
     [name |-> "Trip", amount |-> I(2000), year |-> 1] >>

ExpenseCalls ==
  { [scenario |-> Scenario(I(60000), Zero, I(1000), Half, Zero, Zero,
                           MixedExpenses, <<>>),
     years |-> n, inflation_rate |-> infl, tax_rate |-> Quarter] :
      n \in 1 .. MaxYears, infl \in {Zero, Half} }

\* two career changes in the second year, without growth
TwoOffers ==
  << [year |-> 1, new_salary |-> I(80000), new_growth_rate |-> Zero],
     [year |-> 1, new_salary |-> I(40000), new_growth_rate |-> Zero] >>

\* a long horizon with events of every kind in the second year and a small
\* debt that is paid off before the end
EventsCall ==
  [scenario |-> Scenario(I(60000), Zero, I(2000), Half, Zero, I(25), CarAndTrip,
                         TwoOffers),
   years |-> MaxLongYears, inflation_rate |-> Zero, tax_rate |-> Quarter]

\* a high salary, then a higher one, then none, with a negative return: net
\* worth rises and then falls
RiseThenNothing ==
  << [year |-> 1, new_salary |-> I(400000), new_growth_rate |-> Zero],
     [year |-> 2, new_salary |-> Zero, new_growth_rate |-> Zero] >>

LossCalls ==
  { [scenario |-> Scenario(I(200000), Zero, Zero, One, Q(-1, 2), Zero, <<>>,
                           RiseThenNothing),
     years |-> n, inflation_rate |-> Zero, tax_rate |-> Quarter] :
      n \in 1 .. MaxYears }

Calls ==
  GridCalls \cup LongCalls \cup CareerCalls \cup ExpenseCalls \cup LossCalls
    \cup {Example1Call, EventsCall}

(***************************************************************************)
(* The state machine                                                       *)
(***************************************************************************)

\* a session that has just started: the simulator loaded no scenario file,
\* nothing is being edited, nothing has been displayed
FreshSession ==
  /\ scenarios = <<>>
  /\ scenario_file = <<>>
  /\ editing_scenario_id = None
  /\ store_raised = None
  /\ milestone_summary = None
  /\ comparison = None
  /\ history = <<>>

Init ==
  /\ \E call \in Calls :
       /\ scenario = call.scenario
       /\ years = call.years
       /\ inflation_rate = call.inflation_rate
       /\ tax_rate = call.tax_rate
  /\ pc = "entry"
  /\ year = 0
  /\ age = 0
  /\ current_salary = Zero
  /\ current_growth_rate = Zero
  /\ net_worth = Zero
  /\ liquid_savings = Zero
  /\ investment_portfolio = Zero
  /\ total_earned = Zero
  /\ total_saved = Zero
  /\ total_spent = Zero
  /\ total_taxes = Zero
  /\ debt_balance = Zero
  /\ yearly_data = <<>>
  /\ monthly_expenses_base = Zero
  /\ result = None
  /\ raised = None
  /\ FreshSession

\* the initialisation of the tracking variables
BeginKeepingTotals ==
  /\ pc = "entry"
  /\ pc' = "loop"
  /\ year' = 0
  /\ age' = scenario.starting_age
  /\ current_salary' = scenario.starting_salary
  /\ current_growth_rate' = scenario.salary_growth_rate
  /\ net_worth' = Zero
  /\ liquid_savings' = Zero
  /\ investment_portfolio' = Zero
  /\ debt_balance' = scenario.student_debt
  /\ yearly_data' = <<>>
  /\ monthly_expenses_base' = scenario.monthly_expenses
  /\ UNCHANGED <<args, result, raised, store, display, history,
                 total_earned, total_saved, total_spent, total_taxes>>
Begin ==
  /\ pc = "entry"
  /\ pc' = "loop"
  /\ year' = 0
  /\ age' = scenario.starting_age
  /\ current_salary' = scenario.starting_salary
  /\ current_growth_rate' = scenario.salary_growth_rate
  /\ net_worth' = Zero
  /\ liquid_savings' = Zero
  /\ investment_portfolio' = Zero
  /\ total_earned' = Zero
  /\ total_saved' = Zero
  /\ total_spent' = Zero
  /\ total_taxes' = Zero
  /\ debt_balance' = scenario.student_debt
  /\ yearly_data' = <<>>
  /\ monthly_expenses_base' = scenario.monthly_expenses
  /\ UNCHANGED <<args, result, raised, store, display, history>>

Locals ==
  [age |-> age, current_salary |-> current_salary,
   current_growth_rate |-> current_growth_rate, net_worth |-> net_worth,
   liquid_savings |-> liquid_savings, investment_portfolio |-> investment_portfolio,
   total_earned |-> total_earned, total_saved |-> total_saved,
   total_spent |-> total_spent, total_taxes |-> total_taxes,
   debt_balance |-> debt_balance, monthly_expenses_base |-> monthly_expenses_base]

\* one iteration of the loop over range(years)
YearUpdate(step) ==
  /\ current_salary' = step.current_salary
  /\ current_growth_rate' = step.current_growth_rate
  /\ liquid_savings' = step.liquid_savings
  /\ investment_portfolio' = step.investment_portfolio
  /\ debt_balance' = step.debt_balance
  /\ net_worth' = step.net_worth
  /\ total_earned' = step.total_earned
  /\ total_taxes' = step.total_taxes
  /\ total_spent' = step.total_spent
  /\ total_saved' = step.total_saved
  /\ yearly_data' = Append(yearly_data, YearEntry(step))

SimulateYearDroppingAppliedChanges ==
  LET NotThisYear(change) == change.year # year
  IN  /\ pc = "loop"
      /\ year < years
      /\ YearUpdate(YearStep(scenario, year, inflation_rate, tax_rate, Locals))
      /\ year' = year + 1
      /\ scenario' = [scenario EXCEPT
                        !.career_changes = SelectSeq(scenario.career_changes, NotThisYear)]
      /\ UNCHANGED <<years, inflation_rate, tax_rate, age, monthly_expenses_base,
                     pc, result, raised, store, display, history>>
SimulateYear ==
  /\ pc = "loop"
  /\ year < years
  /\ YearUpdate(YearStep(scenario, year, inflation_rate, tax_rate, Locals))
  /\ year' = year + 1
  /\ UNCHANGED <<args, age, monthly_expenses_base, pc, result, raised,
                 store, display, history>>

\* the loop is over and yearly_data[years-1] exists: the summary is returned
ReturnResult ==
  /\ pc = "loop"
  /\ ~(year < years)
  /\ IndexInRange(Len(yearly_data), LastYearIndex(years))
  /\ result' = Some([yearly_data |-> yearly_data,
                     summary |-> Summary(yearly_data, years, Locals)])
  /\ pc' = "returned"
  /\ UNCHANGED <<args, locals, raised, store, display, history>>

\* the loop is over and yearly_data[years-1] does not exist
RaiseIndexError ==
  /\ pc = "loop"
  /\ ~(year < years)
  /\ ~IndexInRange(Len(yearly_data), LastYearIndex(years))
  /\ raised' = Some("IndexError")
  /\ pc' = "raised"
  /\ UNCHANGED <<args, locals, result, store, display, history>>

(***************************************************************************)
(* The analysis page: net-worth milestones                                 *)
(***************************************************************************)
progress_miles == <<100000, 250000, 500000, 1000000, 2500000, 5000000, 10000000>>

\* the position of the first year record whose net worth reaches mil, 0 when
\* none does (the inner loop and its break)
RECURSIVE LastReaching(_, _, _)
LastReaching(records, i, mil) ==
  IF i > Len(records) THEN 0
  ELSE IF LastReaching(records, i + 1, mil) # 0 THEN LastReaching(records, i + 1, mil)
  ELSE IF RGe(records[i].net_worth, I(mil)) THEN i
  ELSE 0
RECURSIVE FirstReaching(_, _, _)
FirstReaching(records, i, mil) ==
  IF i > Len(records) THEN 0
  ELSE IF RGe(records[i].net_worth, I(mil)) THEN i
  ELSE FirstReaching(records, i + 1, mil)

\* the text "$<mil with thousands separators> Net Worth"
MilestoneLabel(mil) == <<"$", mil, "Net Worth">>

MilestoneEntryOfLast(records, mil, hit) ==
  [Milestone |-> MilestoneLabel(mil),
   Age |-> records[Len(records)].age,
   Year |-> records[Len(records)].year_display]
MilestoneEntry(records, mil, hit) ==
  [Milestone |-> MilestoneLabel(mil),
   Age |-> records[hit].age,
   Year |-> records[hit].year_display]

\* the outer loop: one entry per threshold that some year reaches
RECURSIVE MilestoneSummary(_, _)
MilestoneSummary(miles, records) ==
  IF miles = <<>> THEN <<>>
  ELSE LET hit == FirstReaching(records, 1, Head(miles))
       IN  (IF hit = 0 THEN <<>> ELSE <<MilestoneEntry(records, Head(miles), hit)>>)
             \o MilestoneSummary(Tail(miles), records)

\* the results of the returned call are displayed
DisplayAnalysis ==
  /\ pc = "returned"
  /\ milestone_summary = None
  /\ milestone_summary' = Some(MilestoneSummary(progress_miles, result[1].yearly_data))
  /\ UNCHANGED <<args, locals, pc, result, raised, store, comparison, history>>

Next == Begin \/ SimulateYear \/ ReturnResult \/ RaiseIndexError \/ DisplayAnalysis

Spec == Init /\ [][Next]_vars

(***************************************************************************)
(* The scenario store: add_scenario, get_scenario_by_id, delete_scenario   *)
(***************************************************************************)
MaxScenarios == 2
MaxId == 2

\* s.get("id") and s.get("id", 0): a dict is a record, a missing key is a
\* field that is not in its domain
GetId(s) == IF "id" \in DOMAIN s THEN s.id ELSE None
GetIdOrZero(s) == IF "id" \in DOMAIN s THEN s.id ELSE Some(0)

\* max([...]) + 1 works when every id in the list is an int; with an id
\* that is None either max() or the addition raises TypeError
IdsAreInts(stored) == \A i \in 1 .. Len(stored) : GetIdOrZero(stored[i]) # None

\* the largest stored id, 0 for an empty store
LatestId(stored) ==
  IF stored = <<>> THEN 0
  ELSE CHOOSE m \in {GetIdOrZero(stored[i])[1] : i \in 1 .. Len(stored)} :
         \A i \in 1 .. Len(stored) : GetIdOrZero(stored[i])[1] <= m

\* scenario_data after the id assignment: only a dict without the key "id"
\* gets one
WithId(scenario_data, stored) ==
  IF "id" \notin DOMAIN scenario_data
  THEN [id |-> Some(LatestId(stored) + 1)] @@ scenario_data
  ELSE scenario_data

\* scenario_data["created_date"] = the current time as text
Stamped(scenario_data, now) == [created_date |-> now] @@ scenario_data

IdStored(stored, id) == \E i \in 1 .. Len(stored) : GetId(stored[i]) = id

\* the list after the replace-or-append
Stored(stored, scenario_data) ==
  IF IdStored(stored, scenario_data.id)
  THEN [i \in 1 .. Len(stored) |->
          IF GetId(stored[i]) # scenario_data.id THEN stored[i] ELSE scenario_data]
  ELSE Append(stored, scenario_data)

\* the call raises in the id assignment
AddScenarioRaises(scenario_data) ==
  /\ "id" \notin DOMAIN scenario_data
  /\ scenarios # <<>>
  /\ ~IdsAreInts(scenarios)

\* add_scenario(scenario_data) at the time now, save_data() included
add_scenario(scenario_data, now) ==
  IF AddScenarioRaises(scenario_data)
  THEN /\ store_raised' = Some("TypeError")
       /\ UNCHANGED <<scenarios, scenario_file>>
  ELSE /\ scenarios' = Stored(scenarios, Stamped(WithId(scenario_data, scenarios), now))
       /\ scenario_file' = scenarios'
       /\ store_raised' = None

\* get_scenario_by_id(scenario_id): the first match, or None
get_scenario_by_id(scenario_id) ==
  IF IdStored(scenarios, scenario_id)
  THEN Some(scenarios[CHOOSE i \in 1 .. Len(scenarios) :
                        /\ GetId(scenarios[i]) = scenario_id
                        /\ \A j \in 1 .. i - 1 : GetId(scenarios[j]) # scenario_id])
  ELSE None

\* delete_scenario(scenario_id), save_data() included
delete_scenario(scenario_id) ==
  LET Kept(s) == GetId(s) # scenario_id
  IN  /\ scenarios' = SelectSeq(scenarios, Kept)
      /\ scenario_file' = scenarios'
      /\ store_raised' = None

(***************************************************************************)
(* The create/edit form and the manage page                                *)
(***************************************************************************)

\* `if x:` for an id: None and 0 are false
Truthy(id) == id # None /\ id # Some(0)

\* the rows of the major-expense widgets that are kept, the year turned
\* from 1-based to 0-based
RECURSIVE FormMajorExpenses(_)
FormMajorExpenses(rows) ==
  IF rows = <<>> THEN <<>>
  ELSE (IF Head(rows).expense_name # "" /\ RGt(Head(rows).expense_amount, Zero)
        THEN << [name |-> Head(rows).expense_name,
                 amount |-> Head(rows).expense_amount,
                 year |-> Head(rows).expense_year - 1] >>
        ELSE <<>>) \o FormMajorExpenses(Tail(rows))

\* the rows of the career-change widgets that are kept
RECURSIVE FormCareerChanges(_)
FormCareerChanges(rows) ==
  IF rows = <<>> THEN <<>>
  ELSE (IF RGt(Head(rows).new_salary, Zero)
        THEN << [year |-> Head(rows).change_year - 1,
                 new_salary |-> Head(rows).new_salary,
                 new_growth_rate |-> RDiv(Head(rows).new_growth_percent, I(100))] >>
        ELSE <<>>) \o FormCareerChanges(Tail(rows))

\* scenario_data as the submission builds it; the sliders are in percent
FormScenarioData(form, editing_id) ==
  [id |-> editing_id,
   name |-> form.name,
   starting_age |-> form.starting_age,
   starting_salary |-> form.starting_salary,
   salary_growth_rate |-> RDiv(form.salary_growth_percent, I(100)),
   monthly_expenses |-> form.monthly_expenses,
   savings_rate |-> RDiv(form.savings_percent, I(100)),
   investment_return_rate |-> RDiv(form.investment_return_percent, I(100)),
   student_debt |-> form.student_debt,
   major_expenses |-> FormMajorExpenses(form.expense_rows),
   career_changes |-> FormCareerChanges(form.change_rows)]

\* what the user may have entered in the form
Form(name, salary, expenses, savings_percent, expense_rows, change_rows) ==
  [name |-> name, starting_age |-> 25, starting_salary |-> salary,
   salary_growth_percent |-> Zero, monthly_expenses |-> expenses,
   savings_percent |-> savings_percent, investment_return_percent |-> Zero,
   student_debt |-> Zero, expense_rows |-> expense_rows, change_rows |-> change_rows]

CarRows ==
  << [expense_name |-> "Car", expense_amount |-> I(8000), expense_year |-> 1],
     [expense_name |-> "", expense_amount |-> I(500), expense_year |-> 2],
     [expense_name |-> "Gift", expense_amount |-> Zero, expense_year |-> 2] >>
PromotionRows ==
  << [change_year |-> 2, new_salary |-> I(80000), new_growth_percent |-> I(10)],
     [change_year |-> 5, new_salary |-> Zero, new_growth_percent |-> I(3)] >>

Forms ==
  { Form("A", I(60000), Zero, I(100), <<>>, <<>>),
    Form("B", I(60000), I(200), I(100), CarRows, PromotionRows),
    Form("A", Zero, I(200), I(50), <<>>, <<>>),
    Form("", I(60000), Zero, I(100), <<>>, <<>>) }

\* datetime.now() as "%Y-%m-%d %H:%M:%S"
Timestamps == {"2024-05-01 10:00:00", "2024-05-01 10:00:01"}

\* the store stays within the bounds of the model
WithinBounds(scenario_data) ==
  IF AddScenarioRaises(scenario_data) THEN TRUE
  ELSE /\ Len(Stored(scenarios, WithId(scenario_data, scenarios))) <= MaxScenarios
       /\ WithId(scenario_data, scenarios).id # None =>
            WithId(scenario_data, scenarios).id[1] <= MaxId

\* the page shows the form: not in edit mode, or the scenario to edit exists
FormShown ==
  ~Truthy(editing_scenario_id) \/ get_scenario_by_id(editing_scenario_id) # None

\* the form is submitted with a name
Submitted(form, now) ==
  /\ FormShown
  /\ form.name # ""
  /\ WithinBounds(FormScenarioData(form, editing_scenario_id))
  /\ add_scenario(FormScenarioData(form, editing_scenario_id), now)
  /\ editing_scenario_id' = None

SubmitForm ==
  /\ pc = "idle"
  /\ \E form \in Forms, now \in Timestamps : Submitted(form, now)
  /\ UNCHANGED <<args, locals, pc, result, raised, display, history>>

\* the form is submitted without a name: an error is shown, nothing changes
SubmitUnnamedForm ==
  /\ pc = "idle"
  /\ FormShown
  /\ \E form \in Forms : form.name = ""
  /\ UNCHANGED vars

\* edit mode for a scenario that is not stored: the editing state is cleared
EditTargetMissing ==
  /\ pc = "idle"
  /\ ~FormShown
  /\ editing_scenario_id' = None
  /\ UNCHANGED <<args, locals, pc, result, raised, scenarios, scenario_file,
                 store_raised, display, history>>

\* the Edit button of a stored scenario
EditClick ==
  /\ pc = "idle"
  /\ \E i \in 1 .. Len(scenarios) : editing_scenario_id' = GetId(scenarios[i])
  /\ UNCHANGED <<args, locals, pc, result, raised, scenarios, scenario_file,
                 store_raised, display, history>>

\* the Delete button of a stored scenario
DeleteClick ==
  /\ pc = "idle"
  /\ \E i \in 1 .. Len(scenarios) : delete_scenario(scenarios[i].id)
  /\ UNCHANGED <<args, locals, pc, result, raised, editing_scenario_id,
                 display, history>>

\* a sidebar button
Navigate ==
  /\ pc = "idle"
  /\ editing_scenario_id # None
  /\ editing_scenario_id' = None
  /\ UNCHANGED <<args, locals, pc, result, raised, scenarios, scenario_file,
                 store_raised, display, history>>

\* the scenarios passed to add_scenario directly: without the key "id", or
\* with an id
ApiScenarios ==
  LET named == {[f \in DOMAIN FormScenarioData(form, None) \ {"id"} |->
                   FormScenarioData(form, None)[f]] : form \in Forms}
  IN  named \cup {[id |-> Some(n)] @@ d : n \in 1 .. MaxId, d \in named}

\* a call of add_scenario with one of the given scenarios
AddScenarioOf(inputs, times) ==
  /\ pc = "idle"
  /\ \E scenario_data \in inputs, now \in times :
       /\ WithinBounds(scenario_data)
       /\ add_scenario(scenario_data, now)
  /\ UNCHANGED <<args, locals, pc, result, raised, editing_scenario_id,
                 display, history>>

AddScenario == AddScenarioOf(ApiScenarios, Timestamps)

DeleteScenario ==
  /\ pc = "idle"
  /\ \E n \in 1 .. MaxId : delete_scenario(Some(n))
  /\ UNCHANGED <<args, locals, pc, result, raised, editing_scenario_id,
                 display, history>>

\* no simulate_scenario call is running
NoCall ==
  /\ scenario = Example1Call.scenario
  /\ years = Example1Call.years
  /\ inflation_rate = Example1Call.inflation_rate
  /\ tax_rate = Example1Call.tax_rate
  /\ pc = "idle"
  /\ year = 0
  /\ age = 0
  /\ current_salary = Zero
  /\ current_growth_rate = Zero
  /\ net_worth = Zero
  /\ liquid_savings = Zero
  /\ investment_portfolio = Zero
  /\ total_earned = Zero
  /\ total_saved = Zero
  /\ total_spent = Zero
  /\ total_taxes = Zero
  /\ debt_balance = Zero
  /\ yearly_data = <<>>
  /\ monthly_expenses_base = Zero
  /\ result = None
  /\ raised = None

StoreInit == NoCall /\ FreshSession

StoreNext ==
  \/ AddScenario
  \/ DeleteScenario
  \/ SubmitForm
  \/ SubmitUnnamedForm
  \/ EditTargetMissing
  \/ EditClick
  \/ DeleteClick
  \/ Navigate

StoreSpec == StoreInit /\ [][StoreNext]_vars

(***************************************************************************)
(* The comparison page                                                     *)
(***************************************************************************)

\* net_worth_diff and earned_diff
NetWorthDifferenceFirstMinusSecond(s1, s2) ==
  RSub(s1.final_net_worth, s2.final_net_worth)
NetWorthDifference(s1, s2) == RSub(s2.final_net_worth, s1.final_net_worth)
EarnedDifference(s1, s2) == RSub(s2.total_earned, s1.total_earned)

\* a "... Difference" metric: the amount, no delta, and the delta colour
DifferenceMetric(diff) ==
  [value |-> diff, delta |-> None,
   delta_color |-> IF RGt(diff, Zero) THEN "normal" ELSE "inverse"]

\* "Age <fi_age>" or "Not Achieved"
FIStatus(s) == IF s.fi_achieved THEN <<"Age", s.fi_age[1]>> ELSE <<"Not Achieved">>

\* the "FI Age Difference" metric
FIAgeDifference(s1, s2, name1, name2) ==
  IF s1.fi_achieved /\ s2.fi_achieved
  THEN LET fi_age_diff == s1.fi_age[1] - s2.fi_age[1]
       IN  [value |-> <<"years", Abs(fi_age_diff)>>,
            delta |-> Some(<<IF fi_age_diff > 0 THEN name2 ELSE name1, "earlier">>),
            delta_color |-> IF fi_age_diff > 0 THEN "inverse" ELSE "normal"]
  ELSE IF s1.fi_achieved
  THEN [value |-> <<"Only achieved FI", name1>>, delta |-> None, delta_color |-> "normal"]
  ELSE IF s2.fi_achieved
  THEN [value |-> <<"Only achieved FI", name2>>, delta |-> None, delta_color |-> "normal"]
  ELSE [value |-> <<"Neither achieved FI">>, delta |-> None, delta_color |-> "normal"]

\* what _display_comparison_results shows in the summary columns
ComparisonResults(results1, results2, name1, name2) ==
  [net_worth |-> <<results1.summary.final_net_worth, results2.summary.final_net_worth>>,
   net_worth_difference |->
     DifferenceMetric(NetWorthDifference(results1.summary, results2.summary)),
   total_earned |-> <<results1.summary.total_earned, results2.summary.total_earned>>,
   total_earned_difference |->
     DifferenceMetric(EarnedDifference(results1.summary, results2.summary)),
   fi_age |-> <<FIStatus(results1.summary), FIStatus(results2.summary)>>,
   fi_age_difference |->
     FIAgeDifference(results1.summary, results2.summary, name1, name2)]

(***************************************************************************)
(* A session: simulate_scenario is called several times on one simulator,  *)
(* store operations in between                                             *)
(***************************************************************************)
MaxCalls == 3

Named(name, sc) == [name |-> name] @@ sc

\* A reaches financial independence at once, B and C in their second year;
\* B and C differ from their second year on
SessionScenarios ==
  { Named("A", Scenario(I(60000), Zero, Zero, One, Zero, Zero, <<>>, <<>>)),
    Named("B", Scenario(I(60000), Zero, I(200), One, Zero, Zero, CarAndTrip,
                        PromotionTwice)),
    Named("C", Scenario(I(60000), Zero, I(200), One, Zero, Zero, <<>>, <<>>)) }

SessionCalls ==
  { [scenario |-> sc, years |-> n, inflation_rate |-> Zero, tax_rate |-> Quarter] :
      sc \in SessionScenarios, n \in {1, 2} }
  \cup { [scenario |-> sc, years |-> 0, inflation_rate |-> Zero, tax_rate |-> Quarter] :
           sc \in {sc \in SessionScenarios : sc.name = "A"} }

\* a button that runs a simulation is clicked: simulate_scenario is entered
StartCall ==
  /\ pc = "idle"
  /\ Len(history) < MaxCalls
  /\ \E call \in SessionCalls :
       /\ scenario' = call.scenario
       /\ years' = call.years
       /\ inflation_rate' = call.inflation_rate
       /\ tax_rate' = call.tax_rate
  /\ pc' = "entry"
  /\ result' = None
  /\ raised' = None
  /\ comparison' = None
  /\ UNCHANGED <<locals, store, milestone_summary, history>>

\* the call is over: the caller has its result, or the exception
EndCall ==
  /\ pc \in {"returned", "raised"}
  /\ history' = Append(history,
                       [scenario |-> scenario, years |-> years,
                        inflation_rate |-> inflation_rate, tax_rate |-> tax_rate,
                        result |-> result, raised |-> raised])
  /\ pc' = "idle"
  /\ UNCHANGED <<args, locals, result, raised, store, display>>

\* the comparison of the results of two calls made one after the other, for
\* two scenarios of different names
DisplayComparison ==
  /\ pc = "idle"
  /\ Len(history) >= 2
  /\ comparison = None
  /\ history[Len(history) - 1].scenario.name # history[Len(history)].scenario.name
  /\ history[Len(history) - 1].result # None
  /\ history[Len(history)].result # None
  /\ comparison' = Some(ComparisonResults(history[Len(history) - 1].result[1],
                                           history[Len(history)].result[1],
                                           history[Len(history) - 1].scenario.name,
                                           history[Len(history)].scenario.name))
  /\ UNCHANGED <<args, locals, pc, result, raised, store, milestone_summary, history>>

\* the scenario and time of the add_scenario calls of a session
SessionStored == {sc \in SessionScenarios : sc.name = "A"}
SessionTimes == {CHOOSE now \in Timestamps : TRUE}

SessionAddScenario == AddScenarioOf(SessionStored, SessionTimes)

SessionInit == NoCall /\ FreshSession

SessionNext ==
  \/ StartCall
  \/ Begin
  \/ SimulateYear
  \/ ReturnResult
  \/ RaiseIndexError
  \/ EndCall
  \/ DisplayComparison
  \/ SessionAddScenario
  \/ DeleteScenario

SessionSpec == SessionInit /\ [][SessionNext]_vars

(***************************************************************************)
(* Properties                                                              *)
(***************************************************************************)

\* the record of the i-th simulated year so far (1-based)
Rec(i) == yearly_data[i]
Recorded == 1 .. Len(yearly_data)
Returned == pc = "returned"
Returned_data == result[1].yearly_data
Returned_summary == result[1].summary

\* the inputs the specification calls valid
ValidCall ==
  /\ years >= 1
  /\ RGe(scenario.monthly_expenses, Zero)
  /\ RGe(scenario.savings_rate, Zero) /\ RLe(scenario.savings_rate, One)
  /\ RGe(scenario.starting_salary, Zero) /\ RGe(scenario.salary_growth_rate, Zero)
  /\ RGe(scenario.investment_return_rate, Zero) /\ RGe(scenario.student_debt, Zero)
  /\ RGe(inflation_rate, Zero)
  /\ RGe(tax_rate, Zero) /\ RLe(tax_rate, One)

\* C1: the returned yearly_data has exactly `years` records, in chronological
\* order: the i-th (from 0) has year_idx i, year_display i + 1 and age
\* starting_age + i.
C1_YearRecordsInOrder ==
  Returned =>
    /\ years >= 1
    /\ Len(Returned_data) = years
    /\ \A i \in 0 .. years - 1 :
         /\ Returned_data[i + 1].year_idx = i
         /\ Returned_data[i + 1].year_display = i + 1
         /\ Returned_data[i + 1].age = scenario.starting_age + i

C1_Witness == Returned /\ years >= 3 /\ Len(Returned_data) >= 3

\* C2: in every year record net_worth is liquid_savings_total +
\* investment_portfolio_total - debt_balance_current of the same record.
C2_NetWorthIdentity ==
  \A i \in Recorded :
    Rec(i).net_worth =
      RSub(RAdd(Rec(i).liquid_savings_total, Rec(i).investment_portfolio_total),
           Rec(i).debt_balance_current)

C2_Witness ==
  /\ Returned
  /\ \E i \in Recorded :
       /\ RGt(Rec(i).liquid_savings_total, Zero)
       /\ RGt(Rec(i).investment_portfolio_total, Zero)
       /\ RGt(Rec(i).debt_balance_current, Zero)

\* C3: the recorded debt balance never rises from one year record to the
\* next, never exceeds the initial student_debt and is never negative.
C3_DebtMonotone ==
  RGe(scenario.student_debt, Zero) =>
    \A i \in Recorded :
      /\ RGe(Rec(i).debt_balance_current, Zero)
      /\ RLe(Rec(i).debt_balance_current, scenario.student_debt)
      /\ i > 1 => RLe(Rec(i).debt_balance_current, Rec(i - 1).debt_balance_current)

C3_Witness ==
  \E i \in Recorded :
    /\ i > 1
    /\ RGt(Rec(i).debt_balance_current, Zero)
    /\ RLt(Rec(i).debt_balance_current, Rec(i - 1).debt_balance_current)

\* the debt balance before the payment of year i
DebtBefore(i) == IF i = 1 THEN scenario.student_debt ELSE Rec(i - 1).debt_balance_current

\* after-tax income less living expenses, major expenses and the debt payment
Disposable(i) ==
  RSub(RSub(RSub(Rec(i).after_tax_income, Rec(i).living_expenses_inflation_adj),
            Rec(i).major_expenses_this_year),
       Rec(i).debt_payment_this_year)

Example1Returned ==
  /\ Returned
  /\ scenario = Scenario(I(60000), Q(3, 100), I(2000), Q(1, 5), Q(7, 100), Zero,
                         <<>>, <<>>)
  /\ years = 1 /\ inflation_rate = Q(3, 100) /\ tax_rate = Q(1, 4)

Example1Income ==
  /\ Rec(1).gross_salary = I(60000)
  /\ Rec(1).taxes = I(15000)
  /\ Rec(1).after_tax_income = I(45000)
  /\ Rec(1).living_expenses_inflation_adj = I(24000)
  /\ Rec(1).investment_growth_this_year = Zero

LiquidBefore(i) == IF i = 1 THEN Zero ELSE Rec(i - 1).liquid_savings_total

\* six months of the living expenses of year i
HalfYearExpenses(i) == RMul(Q(1, 2), Rec(i).living_expenses_inflation_adj)

\* C6: in a year with an emergency-fund contribution, liquid savings right
\* after the contribution does not exceed that year's target, 0.5 x the
\* year's annual living expenses; and a year that starts with liquid savings
\* at or above the target has no contribution.
C6_EmergencyFundCap ==
  \A i \in Recorded :
    /\ Rec(i).emergency_fund_target = HalfYearExpenses(i)
    /\ Rec(i).emergency_fund_contrib # Zero =>
         /\ Rec(i).liquid_savings_total =
              RAdd(LiquidBefore(i), Rec(i).emergency_fund_contrib)
         /\ RLe(Rec(i).liquid_savings_total, HalfYearExpenses(i))
    /\ RGe(LiquidBefore(i), HalfYearExpenses(i)) =>
         Rec(i).emergency_fund_contrib = Zero

C6_Witness ==
  /\ \E i \in Recorded :
       /\ RGt(Rec(i).emergency_fund_contrib, Zero)
       /\ RLt(Rec(i).emergency_fund_contrib, RMul(Q(1, 2), Disposable(i)))
       /\ Rec(i).liquid_savings_total = HalfYearExpenses(i)
  /\ \E j \in Recorded :
       /\ RGt(HalfYearExpenses(j), Zero)
       /\ RGe(LiquidBefore(j), HalfYearExpenses(j))
       /\ RGt(Disposable(j), Zero)

\* the years (1-based) whose record has a portfolio at or above the target
QualifyingYears(data, fi_target) ==
  {i \in 1 .. Len(data) : RGe(data[i].investment_portfolio_total, fi_target)}
Earliest(S) == CHOOSE i \in S : \A j \in S : i <= j

\* C7: FI is reported achieved iff some year record's
\* investment_portfolio_total is >= fi_target; then fi_year_achieved is the
\* 1-based position of the first such record and fi_age is starting_age +
\* fi_year_achieved - 1; otherwise fi_achieved is false and fi_age and
\* fi_year_achieved are None.
C7_FirstFIYear ==
  Returned =>
    IF QualifyingYears(Returned_data, Returned_summary.fi_target) # {}
    THEN /\ Returned_summary.fi_achieved = TRUE
         /\ Returned_summary.fi_year_achieved =
              Some(Earliest(QualifyingYears(Returned_data, Returned_summary.fi_target)))
         /\ Returned_summary.fi_age =
              Some(scenario.starting_age + Returned_summary.fi_year_achieved[1] - 1)
    ELSE /\ Returned_summary.fi_achieved = FALSE
         /\ Returned_summary.fi_age = None
         /\ Returned_summary.fi_year_achieved = None

C7_Witness ==
  /\ Returned
  /\ RGt(Returned_summary.fi_target, Zero)
  /\ Returned_summary.fi_achieved
  /\ Returned_summary.fi_year_achieved[1] > 1
  /\ Len(Returned_data) > Returned_summary.fi_year_achieved[1]
  /\ RLt(Rec(Returned_summary.fi_year_achieved[1]).net_worth, Returned_summary.fi_target)

C7_WitnessNotAchieved ==
  /\ Returned
  /\ ~Returned_summary.fi_achieved
  /\ RGt(Rec(Len(yearly_data)).investment_portfolio_total, Zero)

InvalidCall ==
  \/ years <= 0
  \/ RLt(scenario.monthly_expenses, Zero)
  \/ RLt(scenario.savings_rate, Zero)
  \/ RGt(scenario.savings_rate, One)

\* C9: with years <= 0, monthly_expenses < 0 or savings_rate outside [0,1]
\* the call fails with InvalidScenario: it produces no year record, returns no
\* result and raises no other error.
C9_InvalidScenarioRejected ==
  InvalidCall =>
    /\ yearly_data = <<>>
    /\ result = None
    /\ pc # "returned"
    /\ raised \in {None, Some("InvalidScenario")}

Displayed == milestone_summary # None
Milestones == milestone_summary[1]

\* the year records whose net worth is at least mil
Reaching(mil) == {i \in 1 .. Len(Returned_data) : RGe(Returned_data[i].net_worth, I(mil))}
\* the entries of the milestone list for the threshold mil
EntriesFor(mil) == {j \in 1 .. Len(Milestones) : Milestones[j].Milestone[2] = mil}
Thresholds == {progress_miles[k] : k \in 1 .. Len(progress_miles)}

\* C17: for each threshold the milestone list has exactly one entry, with the
\* age and year of the first year record whose net worth is >= the threshold,
\* and none for a threshold that no record reaches; the entries are in
\* ascending threshold order.
C17_Milestones ==
  Displayed =>
    /\ \A mil \in Thresholds :
         IF Reaching(mil) = {} THEN EntriesFor(mil) = {}
         ELSE /\ Cardinality(EntriesFor(mil)) = 1
              /\ \A j \in EntriesFor(mil) : \E i \in Reaching(mil) :
                   /\ \A h \in Reaching(mil) : i <= h
                   /\ Milestones[j].Age = Returned_data[i].age
                   /\ Milestones[j].Year = Returned_data[i].year_display
    /\ \A j \in 1 .. Len(Milestones) : Milestones[j].Milestone[2] \in Thresholds
    /\ \A j, k \in 1 .. Len(Milestones) :
         j < k => Milestones[j].Milestone[2] < Milestones[k].Milestone[2]

\* several thresholds are reached, each first in a year that is neither the
\* first nor the last, and the higher thresholds are not reached
C17_Witness ==
  /\ Displayed
  /\ ValidCall
  /\ Len(Milestones) >= 2
  /\ Len(Milestones) < Len(progress_miles)
  /\ \A j \in 1 .. Len(Milestones) :
       Milestones[j].Year > 1 /\ Milestones[j].Year < Len(Returned_data)

(***************************************************************************)
(* Properties of the yearly steps                                          *)
(***************************************************************************)

\* the emergency-fund contribution of year i when the fund takes the given
\* share of the disposable income
ExpectedEmergencyFund(i, share) ==
  IF RLt(LiquidBefore(i), Rec(i).emergency_fund_target) /\ RGt(Disposable(i), Zero)
  THEN RMin(RMul(share, Disposable(i)),
            RSub(Rec(i).emergency_fund_target, LiquidBefore(i)))
  ELSE Zero

EmergencyFundStep(share) ==
  \A i \in Recorded :
    /\ Rec(i).emergency_fund_contrib = ExpectedEmergencyFund(i, share)
    /\ Rec(i).liquid_savings_total =
         RAdd(LiquidBefore(i), Rec(i).emergency_fund_contrib)
    /\ Rec(i).investment_contrib =
         RMax(Zero, RMul(RSub(Disposable(i), Rec(i).emergency_fund_contrib),
                         scenario.savings_rate))

AppliedBy(y) ==
  {i \in 1 .. Len(scenario.career_changes) :
     scenario.career_changes[i].year >= 0 /\ scenario.career_changes[i].year <= y}

\* the one applied last: the latest year, and within it the last in the list
LastApplied(y) ==
  CHOOSE i \in AppliedBy(y) : \A j \in AppliedBy(y) :
    \/ scenario.career_changes[j].year < scenario.career_changes[i].year
    \/ scenario.career_changes[j].year = scenario.career_changes[i].year /\ j <= i

\* salary and growth rate in force in year y
Regime(y) ==
  IF AppliedBy(y) = {}
  THEN [salary |-> scenario.starting_salary, growth |-> scenario.salary_growth_rate]
  ELSE [salary |-> scenario.career_changes[LastApplied(y)].new_salary,
        growth |-> scenario.career_changes[LastApplied(y)].new_growth_rate]

\* C19: after the iteration of year y the current salary and growth rate are
\* those of the last career change, in list order, of the latest year <= y
\* that has one (the starting values when there is none); as y < years, an
\* entry whose year is >= years is never among them.
C19_CareerChanges ==
  pc \in {"loop", "returned"} =>
    /\ year <= years \/ year = 0
    /\ current_salary = Regime(year - 1).salary
    /\ current_growth_rate = Regime(year - 1).growth

\* two changes for the same year with different values, a later year without
\* any change, and a change that lies past the horizon
C19_Witness ==
  /\ Returned
  /\ \E i, j \in AppliedBy(years - 1) :
       /\ i < j
       /\ scenario.career_changes[i].year = scenario.career_changes[j].year
       /\ scenario.career_changes[i].new_salary # scenario.career_changes[j].new_salary
       /\ j = LastApplied(years - 1)
       /\ scenario.career_changes[j].year < years - 1
  /\ \E k \in 1 .. Len(scenario.career_changes) :
       /\ scenario.career_changes[k].year >= years
       /\ k < LastApplied(years - 1)

\* C20: the gross salary of year y (0-based) is the salary in force times
\* (1 + the growth rate in force) ^ y, with y counted from the start of the
\* simulation, also after a career change.
C20_GrossSalary ==
  \A i \in Recorded :
    Rec(i).gross_salary =
      RMul(Regime(i - 1).salary, RPow(RAdd(One, Regime(i - 1).growth), i - 1))

\* a year after a career change of a later year than the first, where
\* counting from the change would give another salary
C20_Witness ==
  \E i \in Recorded :
    /\ AppliedBy(i - 1) # {}
    /\ scenario.career_changes[LastApplied(i - 1)].year >= 1
    /\ i - 1 > scenario.career_changes[LastApplied(i - 1)].year
    /\ Rec(i).gross_salary #
         RMul(Regime(i - 1).salary,
              RPow(RAdd(One, Regime(i - 1).growth),
                   i - 1 - scenario.career_changes[LastApplied(i - 1)].year))

(***************************************************************************)
(* Properties of the scenario store                                        *)
(***************************************************************************)
StoredIdsUnique ==
  \A i, j \in 1 .. Len(scenarios) : i # j => GetId(scenarios[i]) # GetId(scenarios[j])

StoredIdsAreInts ==
  \A i \in 1 .. Len(scenarios) : "id" \in DOMAIN scenarios[i] /\ scenarios[i].id # None

\* C13: after any sequence of add_scenario and delete_scenario calls,
\* those of the form included, no two stored scenarios share an id and every
\* stored scenario has an integer id.
C13_UniqueIntegerIds == StoredIdsUnique /\ StoredIdsAreInts

\* the step is a submission of the form, with a name, while not editing
CreationSubmitted ==
  /\ editing_scenario_id = None
  /\ \E form \in Forms, now \in Timestamps : Submitted(form, now)

\* C14: a submission of the form while not editing appends: the number of
\* stored scenarios grows by exactly one and the scenarios stored before
\* are unchanged.
C14_CreationAppends ==
  [][CreationSubmitted =>
       /\ Len(scenarios') = Len(scenarios) + 1
       /\ SubSeq(scenarios', 1, Len(scenarios)) = scenarios]_vars

(***************************************************************************)
(* Properties of repeated calls                                            *)
(***************************************************************************)
SameArguments(a, b) ==
  /\ a.scenario = b.scenario
  /\ a.years = b.years
  /\ a.inflation_rate = b.inflation_rate
  /\ a.tax_rate = b.tax_rate

\* C11: two calls of simulate_scenario with the same scenario, years,
\* inflation_rate and tax_rate have the same outcome (the same result, or the
\* same exception), whatever simulate_scenario, add_scenario and
\* delete_scenario calls were made before or between them on the simulator.
C11_Deterministic ==
  \A i, j \in 1 .. Len(history) :
     SameArguments(history[i], history[j]) =>
       /\ history[i].result = history[j].result
       /\ history[i].raised = history[j].raised

\* two returned calls with the same arguments, a call with other arguments
\* between them, and a store that is no longer the empty one of the start
C11_Witness ==
  /\ Len(history) >= 3
  /\ SameArguments(history[1], history[3])
  /\ ~SameArguments(history[1], history[2])
  /\ history[1].result # None
  /\ history[1].scenario.career_changes # <<>>
  /\ scenarios # <<>>

\* the step is one of simulate_scenario, between its entry and its return
InCall == pc \in {"entry", "loop"}

\* the step leaves the scenario argument and the stored scenarios as they are
Untouched == UNCHANGED <<scenario, scenarios, scenario_file>>

\* C12: no step of simulate_scenario, from its entry to its return, changes
\* its scenario argument or the stored scenarios (in memory or in the file).
C12_ArgumentsUntouched == [][InCall => Untouched]_vars

\* the second of two simulations has returned, for a scenario with career
\* changes and major expenses, while scenarios are stored
C12_Witness ==
  /\ pc = "returned"
  /\ Len(history) >= 1
  /\ years = 2
  /\ scenario.career_changes # <<>>
  /\ scenario.major_expenses # <<>>
  /\ scenarios # <<>>

(***************************************************************************)
(* Properties of the comparison                                            *)
(***************************************************************************)
\* the summaries and names of the two results compared
First == history[Len(history) - 1].result[1].summary
Second == history[Len(history)].result[1].summary
FirstName == history[Len(history) - 1].scenario.name
SecondName == history[Len(history)].scenario.name

Compared == comparison # None

\* C15 as stated: the differences are those of the first result minus the
\* second; equal final net worths give a zero difference and no winner.
C15_DifferencesAsStated ==
  Compared =>
    /\ comparison[1].net_worth_difference.value
         = RSub(First.final_net_worth, Second.final_net_worth)
    /\ comparison[1].total_earned_difference.value
         = RSub(First.total_earned, Second.total_earned)
    /\ First.final_net_worth = Second.final_net_worth =>
         /\ comparison[1].net_worth_difference.value = Zero
         /\ comparison[1].net_worth_difference.delta = None

\* C15: the differences are those of the second result minus the first, so
\* a positive value means the second scenario is ahead; equal final net
\* worths give a zero difference and the metric names no scenario.
C15_Differences ==
  Compared =>
    /\ comparison[1].net_worth_difference.value
         = RSub(Second.final_net_worth, First.final_net_worth)
    /\ comparison[1].total_earned_difference.value
         = RSub(Second.total_earned, First.total_earned)
    /\ RGt(comparison[1].net_worth_difference.value, Zero)
         <=> RGt(Second.final_net_worth, First.final_net_worth)
    /\ First.final_net_worth = Second.final_net_worth =>
         /\ comparison[1].net_worth_difference.value = Zero
         /\ comparison[1].net_worth_difference.delta = None

\* a comparison in which the first scenario is ahead in both respects
C15_Witness ==
  /\ Compared
  /\ RGt(First.final_net_worth, Second.final_net_worth)
  /\ RGt(First.total_earned, Second.total_earned)

\* a comparison of two results with the same final net worth
C15_EqualNetWorthCompared ==
  Compared /\ First.final_net_worth = Second.final_net_worth

\* C16: if both scenarios achieved FI, the one of the strictly lower fi_age
\* is reported as earlier and none is named when the ages are equal; if
\* exactly one achieved FI it is reported as the only one; if none did,
\* "Neither achieved FI" is reported and no scenario is named.
C16_FITieBreak ==
  Compared =>
    LET shown == comparison[1].fi_age_difference
        both == First.fi_achieved /\ Second.fi_achieved
    IN  /\ both =>
             IF First.fi_age[1] < Second.fi_age[1]
             THEN shown.delta = Some(<<FirstName, "earlier">>)
             ELSE IF Second.fi_age[1] < First.fi_age[1]
             THEN shown.delta = Some(<<SecondName, "earlier">>)
             ELSE shown.delta = None
        /\ First.fi_achieved /\ ~Second.fi_achieved =>
             shown.value = <<"Only achieved FI", FirstName>> /\ shown.delta = None
        /\ Second.fi_achieved /\ ~First.fi_achieved =>
             shown.value = <<"Only achieved FI", SecondName>> /\ shown.delta = None
        /\ ~First.fi_achieved /\ ~Second.fi_achieved =>
             shown.value = <<"Neither achieved FI">> /\ shown.delta = None

\* on equal ages the first scenario is the one reported as earlier
FIComparisonButTie ==
  Compared /\ First.fi_achieved /\ Second.fi_achieved
           /\ First.fi_age = Second.fi_age
    => comparison[1].fi_age_difference.delta = Some(<<FirstName, "earlier">>)
(***************************************************************************)
(* Properties of the deductions and the contributions                      *)
(***************************************************************************)
\* the positions in major_expenses of the entries of year y (0-based)
ExpensesOf(y) ==
  {k \in 1 .. Len(scenario.major_expenses) : scenario.major_expenses[k].year = y}

\* the sum of the amounts at the positions S, each times the multiplier
RECURSIVE AdjustedSum(_, _)
AdjustedSum(S, multiplier) ==
  IF S = {} THEN Zero
  ELSE LET k == CHOOSE k \in S : TRUE
       IN  RAdd(RMul(scenario.major_expenses[k].amount, multiplier),
                AdjustedSum(S \ {k}, multiplier))

\* the major expenses of the i-th year record, from the scenario
ExpectedMajorExpenses(i) ==
  AdjustedSum(ExpensesOf(i - 1), RPow(RAdd(One, inflation_rate), i - 1))

\* the sum of living and major expenses over the first n year records
RECURSIVE SpentUpTo(_)
SpentUpTo(n) ==
  IF n = 0 THEN Zero
  ELSE RAdd(SpentUpTo(n - 1),
            RAdd(Rec(n).living_expenses_inflation_adj, ExpectedMajorExpenses(n)))

\* C21: the major expenses of year y are the sum, over all major_expenses
\* entries with year = y, of amount x (1 + inflation_rate)^y; the savings of
\* the year are computed from the income left after them, and total_spent
\* is the sum of the living and major expenses of all years.
C21_MajorExpenses ==
  /\ \A i \in Recorded :
       /\ Rec(i).major_expenses_this_year = ExpectedMajorExpenses(i)
       /\ Rec(i).emergency_fund_contrib = ExpectedEmergencyFund(i, Q(1, 2))
       /\ Rec(i).investment_contrib =
            RMax(Zero, RMul(RSub(Disposable(i), Rec(i).emergency_fund_contrib),
                            scenario.savings_rate))
  /\ pc \in {"loop", "returned"} => total_spent = SpentUpTo(Len(yearly_data))
  /\ Returned => Returned_summary.total_spent = SpentUpTo(Len(Returned_data))

\* a returned run with inflation whose list has two entries for the second
\* year, entries of other years between them, and savings in that year
C21_Witness ==
  /\ Returned
  /\ RGt(inflation_rate, Zero)
  /\ Len(yearly_data) >= 2
  /\ \E j, k, l \in 1 .. Len(scenario.major_expenses) :
       /\ j < l /\ l < k
       /\ scenario.major_expenses[j].year = 1
       /\ scenario.major_expenses[k].year = 1
       /\ scenario.major_expenses[l].year # 1
  /\ ExpensesOf(0) # {}
  /\ RGt(Rec(2).major_expenses_this_year, I(10000))
  /\ RGt(Rec(2).investment_contrib, Zero)
\* what is left of the disposable income of year i after the emergency fund
Remaining(i) == RSub(Disposable(i), Rec(i).emergency_fund_contrib)

NegativeRateInDeficit ==
  /\ RLt(scenario.savings_rate, Zero)
  /\ \E i \in Recorded : RLt(Disposable(i), Zero) /\ RGt(Rec(i).investment_contrib, Zero)
(***************************************************************************)
(* Properties of the investment portfolio                                  *)
(***************************************************************************)
\* the portfolio at the start of year i
PortfolioBefore(i) == IF i = 1 THEN Zero ELSE Rec(i - 1).investment_portfolio_total

\* C23: the growth of a year is the portfolio at the start of the year times
\* investment_return_rate, the portfolio at the end of the year is start +
\* contribution + growth; so the growth of year 1 is 0 and the contribution
\* of a year earns nothing in that year.
C23_GrowthOnStartBalance ==
  \A i \in Recorded :
    /\ Rec(i).investment_growth_this_year =
         RMul(PortfolioBefore(i), scenario.investment_return_rate)
    /\ Rec(i).investment_portfolio_total =
         RAdd(PortfolioBefore(i),
              RAdd(Rec(i).investment_contrib, Rec(i).investment_growth_this_year))
    /\ i = 1 => Rec(i).investment_growth_this_year = Zero

\* a first year with a contribution at a positive return rate, and a later
\* year with both growth and a contribution
C23_Witness ==
  /\ RGt(scenario.investment_return_rate, Zero)
  /\ Len(yearly_data) >= 2
  /\ RGt(Rec(1).investment_contrib, Zero)
  /\ \E i \in Recorded :
       /\ i > 1
       /\ RGt(Rec(i).investment_growth_this_year, Zero)
       /\ RGt(Rec(i).investment_contrib, Zero)
(***************************************************************************)
(* Properties of the financial-independence target                         *)
(***************************************************************************)
\* the annual living expenses of the last simulated year, from the arguments
LastYearExpenses ==
  RMul(RMul(scenario.monthly_expenses, I(12)),
       RPow(RAdd(One, inflation_rate), years - 1))

NegativeExpensesTarget ==
  (Returned /\ RLt(scenario.monthly_expenses, Zero) /\ RGt(RAdd(One, inflation_rate), Zero))
    => Returned_summary.fi_target = Zero
(***************************************************************************)
(* Properties of the events of a year                                      *)
(***************************************************************************)
\* the entries of a list of the scenario that have year y (0-based), in
\* list order
OfYear(list, y) == LET InYear(entry) == entry.year = y IN SelectSeq(list, InYear)

\* the events expected in the i-th year record, by kind
CareerEventsOf(i) ==
  LET changes == OfYear(scenario.career_changes, i - 1)
  IN  [k \in 1 .. Len(changes) |->
         [kind |-> "career", label |-> "", v1 |-> changes[k].new_salary,
          v2 |-> changes[k].new_growth_rate]]
MajorEventsOf(i) ==
  LET expenses == OfYear(scenario.major_expenses, i - 1)
  IN  [k \in 1 .. Len(expenses) |->
         [kind |-> "major", label |-> expenses[k].name,
          v1 |-> RMul(expenses[k].amount, RPow(RAdd(One, inflation_rate), i - 1)),
          v2 |-> Zero]]
DebtEventsOf(i) ==
  IF RGt(DebtBefore(i), Zero) /\ RGt(scenario.student_debt, Zero)
  THEN << [kind |-> "debt", label |-> "", v1 |-> Rec(i).debt_payment_this_year,
           v2 |-> Rec(i).debt_balance_current] >>
  ELSE <<>>

\* C25: the events of a year record are the career-change events of the year
\* in career_changes order, then the major-expense events of the year in
\* major_expenses order, then one debt-payment event if debt is outstanding;
\* a year with none of these has no events.
C25_EventsInOrder ==
  \A i \in Recorded :
    Rec(i).events = CareerEventsOf(i) \o MajorEventsOf(i) \o DebtEventsOf(i)

\* a run with a year of two career changes, two major expenses and a debt
\* payment, and a later year without any event
C25_Witness ==
  /\ \E i \in Recorded :
       /\ Len(Rec(i).events) = 5
       /\ Rec(i).events[1].kind = "career" /\ Rec(i).events[1].v1 = I(80000)
       /\ Rec(i).events[2].kind = "career" /\ Rec(i).events[2].v1 = I(40000)
       /\ Rec(i).events[3].kind = "major" /\ Rec(i).events[3].label = "Car"
       /\ Rec(i).events[4].kind = "major" /\ Rec(i).events[4].label = "Trip"
       /\ Rec(i).events[5].kind = "debt"
  /\ \E j \in Recorded : Rec(j).events = <<>>
(***************************************************************************)
(* Properties of the balances from year to year                            *)
(***************************************************************************)
\* net worth at the start of year i: nothing saved yet in the first year
NetWorthBefore(i) == IF i = 1 THEN RNeg(scenario.student_debt) ELSE Rec(i - 1).net_worth

RECURSIVE SavedUpTo(_)
SavedUpTo(n) ==
  IF n = 0 THEN Zero ELSE RAdd(SavedUpTo(n - 1), Returned_data[n].annual_total_savings)

\* C27: the total savings of a year are the emergency-fund contribution plus
\* the investment contribution; for a savings_rate in [0,1] they do not
\* exceed the disposable income of a year in which it is positive; and
\* total_saved of the summary is the sum of annual_total_savings over the
\* year records.
C27_TotalSavings ==
  /\ \A i \in Recorded :
       /\ Rec(i).annual_total_savings =
            RAdd(Rec(i).emergency_fund_contrib, Rec(i).investment_contrib)
       /\ ( /\ RGe(scenario.savings_rate, Zero) /\ RLe(scenario.savings_rate, One)
            /\ RGt(Disposable(i), Zero) ) =>
              RLe(Rec(i).annual_total_savings, Disposable(i))
  /\ Returned => Returned_summary.total_saved = SavedUpTo(Len(Returned_data))

\* a returned run of several years with a savings_rate of 1: a year whose
\* savings take all of the disposable income, emergency fund included
C27_Witness ==
  /\ Returned
  /\ Len(Returned_data) >= 2
  /\ scenario.savings_rate = One
  /\ \E i \in Recorded :
       /\ RGt(Rec(i).emergency_fund_contrib, Zero)
       /\ RGt(Rec(i).investment_contrib, Zero)
       /\ Rec(i).annual_total_savings = Disposable(i)
  /\ RGt(Returned_summary.total_saved, Rec(Len(yearly_data)).annual_total_savings)

\* with a savings_rate above 1 the savings of a year exceed its income
SavingsAboveIncome ==
  /\ RGt(scenario.savings_rate, One)
  /\ \E i \in Recorded :
       RGt(Disposable(i), Zero) /\ RGt(Rec(i).annual_total_savings, Disposable(i))
\* C28: with monthly_expenses = 0 the living expenses of the last year are
\* 0, fi_target is 0 and FI is reported as achieved in year 1 at
\* starting_age, whatever the salary and the portfolio.
C28_ZeroExpensesFI ==
  (Returned /\ scenario.monthly_expenses = Zero) =>
    /\ Returned_data[Len(Returned_data)].living_expenses_inflation_adj = Zero
    /\ Returned_summary.fi_target = Zero
    /\ Returned_summary.fi_achieved = TRUE
    /\ Returned_summary.fi_year_achieved = Some(1)
    /\ Returned_summary.fi_age = Some(scenario.starting_age)

\* a returned run of several years without expenses and without salary,
\* whose portfolio is 0 in every year
C28_Witness ==
  /\ Returned
  /\ scenario.monthly_expenses = Zero
  /\ scenario.starting_salary = Zero
  /\ scenario.career_changes = <<>>
  /\ Len(Returned_data) >= 2
  /\ \A i \in 1 .. Len(Returned_data) :
       Returned_data[i].investment_portfolio_total = Zero
  /\ Returned_summary.fi_achieved
\* the sums of gross_salary and of taxes over the first n returned records
RECURSIVE EarnedUpTo(_)
EarnedUpTo(n) ==
  IF n = 0 THEN Zero ELSE RAdd(EarnedUpTo(n - 1), Returned_data[n].gross_salary)
RECURSIVE TaxesUpTo(_)
TaxesUpTo(n) ==
  IF n = 0 THEN Zero ELSE RAdd(TaxesUpTo(n - 1), Returned_data[n].taxes)

LastRecord == Returned_data[Len(Returned_data)]

\* C29: in a returned result the final balances of the summary are those of
\* the last year record, total_earned and total_taxes are the sums of
\* gross_salary and taxes over the records, and final_age is starting_age +
\* years, one more than the age of the last record.
C29_SummaryAgrees ==
  Returned =>
    /\ Returned_summary.final_net_worth = LastRecord.net_worth
    /\ Returned_summary.liquid_savings_final = LastRecord.liquid_savings_total
    /\ Returned_summary.investment_portfolio_final = LastRecord.investment_portfolio_total
    /\ Returned_summary.remaining_debt_final = LastRecord.debt_balance_current
    /\ Returned_summary.total_earned = EarnedUpTo(Len(Returned_data))
    /\ Returned_summary.total_taxes = TaxesUpTo(Len(Returned_data))
    /\ Returned_summary.final_age = scenario.starting_age + years
    /\ Returned_summary.final_age = LastRecord.age + 1

\* a returned run of three years or more whose salary changes from year to
\* year, with debt left and all three balances positive at the end
C29_Witness ==
  /\ Returned
  /\ Len(Returned_data) >= 3
  /\ Returned_data[1].gross_salary # Returned_data[2].gross_salary
  /\ Returned_data[2].gross_salary # Returned_data[3].gross_salary
  /\ RGt(Returned_summary.total_taxes, Zero)
  /\ RGt(Returned_summary.remaining_debt_final, Zero)
  /\ RGt(Returned_summary.liquid_savings_final, Zero)
  /\ RGt(Returned_summary.investment_portfolio_final, Zero)
  /\ Returned_summary.final_net_worth # Returned_data[Len(Returned_data) - 1].net_worth
(***************************************************************************)
(* Properties of the milestone list, continued                             *)
(***************************************************************************)
\* C30: in the milestone list an entry of a higher threshold never has an
\* earlier year or a lower age than an entry of a lower threshold, and when
\* a threshold has no entry no higher threshold has one.
C30_MilestonesMonotone ==
  Displayed =>
    /\ \A j, k \in 1 .. Len(Milestones) :
         Milestones[j].Milestone[2] < Milestones[k].Milestone[2] =>
           /\ Milestones[j].Year <= Milestones[k].Year
           /\ Milestones[j].Age <= Milestones[k].Age
    /\ \A lower, higher \in Thresholds :
         (lower < higher /\ EntriesFor(lower) = {}) => EntriesFor(higher) = {}

\* two thresholds first reached in different years, a higher one never
\* reached, and a net worth that falls below the second threshold afterwards
C30_Witness ==
  /\ Displayed
  /\ Len(Milestones) >= 2
  /\ Len(Milestones) < Len(progress_miles)
  /\ Milestones[1].Year < Milestones[2].Year
  /\ \E i \in 1 .. Len(Returned_data) :
       /\ i > Milestones[2].Year
       /\ RLt(Returned_data[i].net_worth, Returned_data[i - 1].net_worth)
       /\ RLt(Returned_data[i].net_worth, I(Milestones[2].Milestone[2]))

====
